---------------------------- MODULE Spec2Model ----------------------------
(***************************************************************************)
(* A state-machine model of circam (src/circam.c): a V4L2 capture loop     *)
(* that shows a webcam feed in a circular, resizable SDL window.           *)
(*                                                                         *)
(* main() is modelled statement group by statement group.  pc is the       *)
(* position of the single thread in main(); every action is one step of    *)
(* main() (an initialisation call with its failure path, one event         *)
(* handler, the stabilized-resize check, one step of the capture cycle,    *)
(* one step of the cleanup).  The kernel driver, the window manager and    *)
(* the event queue are the environment: their answers are drawn with \E.   *)
(***************************************************************************)
EXTENDS Integers, Sequences, FiniteSets

(***************************************************************************)
(* Program constants.                                                      *)
(***************************************************************************)
MIN_SIZE == 100

MIN_WINDOW_SIZE == 50

SIZE_STEP == 10

RESIZE_STABILIZE_MS == 100

DEFAULT_SIZE == 480

\* req.count = 4: the number of buffers main() asks the driver for.
ReqCount == 4

\* if (argc < 2 || argc > 5)
MinArgc == 2

MaxArgc == 5

\* struct timeval tv = { .tv_sec = 2 }: the select() timeout, in milliseconds.
SELECT_TIMEOUT_MS == 2000

\* The status of a process that SIGSEGV has ended: 128 + 11.
KilledStatus == 139

(***************************************************************************)
(* Bounds of the model.                                                    *)
(***************************************************************************)
\* The '+' / wheel-up handlers are cut off above this window size.
MaxSize == 110

\* The short answer of the driver to VIDIOC_REQBUFS (it may grant fewer
\* buffers than requested and overwrites req.count with what it granted).
ShortGrant == 2

\* The time since the last recorded resize event is tracked up to this
\* value; beyond RESIZE_STABILIZE_MS every value behaves the same.
MaxAge == 100

\* The time a select() that does not time out takes: 0 or TimeQuantum ms.
TimeQuantum == 50

\* The length of the keyboard / wheel step sequences of SpecSteps.
MaxSteps == 7

\* The longest command line followed: argc - 1 is at most MaxArgs.
MaxArgs == 5

\* The pointer coordinates SDL_GetGlobalMouseState returns are 0 .. MaxPointer.
MaxPointer == 1

\* A drag is cut off when it would move the window further than MaxPos from
\* where it was created.
MaxPos == 2

Grants == {ShortGrant, ReqCount}

InitSizes == {MIN_SIZE, MIN_SIZE + SIZE_STEP}

\* data1 / data2 of SDL_WINDOWEVENT_SIZE_CHANGED events.
ExtSizes == {40, 60, 100}

\* event.wheel.y of SDL_MOUSEWHEEL events.
WheelYs == {-2, -1, 0, 1, 2}

\* The arguments of the command lines followed, as sequences of characters.
TokT == <<"-", "t">>

TokS == <<"-", "s">>

DevPath == <<"/", "d", "e", "v", "/", "v", "i", "d", "e", "o", "0">>

\* The empty string (argv[i] pointing at the terminating 0).
Empty == << >>

\* char *video_device = NULL: a pointer to no string, which no sequence of
\* characters equals.
NULL == <<"NULL">>

\* The arguments: the options, a device path, the empty string, sizes
\* below and at MIN_SIZE, a size after white space, and digits beyond int.
ArgToks ==
    {TokT, TokS, DevPath, Empty, <<"5", "0">>, <<"1", "0", "0">>,
     <<"\t", "1", "2", "0">>,
     <<"2", "1", "4", "7", "4", "8", "3", "6", "4", "8">>}

RECURSIVE SeqsUpTo(_, _)
SeqsUpTo(S, n) ==
    IF n = 0 THEN {<< >>}
    ELSE LET shorter == SeqsUpTo(S, n - 1)
         IN  shorter \cup {Append(s, x) : s \in shorter, x \in S}

ArgLists == SeqsUpTo(ArgToks, MaxArgs)

\* event.button.button of mouse button events.
Buttons == {"LEFT", "RIGHT"}

\* What SDL_GetGlobalMouseState stores: a pointer position.
Pointers == (0 .. MaxPointer) \X (0 .. MaxPointer)

\* The same in the runs of the whole program, where the pointer rests at one
\* place: a drag there leaves the window where it is.  (SpecDrag follows a
\* pointer that moves.)
RestPointers == {<<0, 0>>}

VARIABLES
    pc,                  \* position in main()
    exit_code,           \* the status the process ended with; -1 while it runs
    i,                   \* the loop index of the map / queue / munmap loops
    sdl_up,              \* SDL_Init succeeded and SDL_Quit was not called
    fd_open,             \* fd is an open descriptor
    req_count,           \* req.count after VIDIOC_REQBUFS
    buffers_alloc,       \* the calloc'ed buffers array is live
    mapped,              \* slot indices with a live mmap
    queued,              \* slot indices owned by the driver
    dequeued,            \* slot indices owned by the application
    streaming,           \* VIDIOC_STREAMON is in effect
    window,              \* the SDL window exists
    renderer,            \* the SDL renderer exists
    texture,             \* the SDL texture exists
    shape_surface,       \* the size of the live mask surface; 0 is NULL
    window_shape,        \* the size of the mask applied to the window; 0 none
    window_size,         \* int window_size
    current_window_size, \* int current_window_size
    running,             \* int running
    pending_resize,      \* static int pending_resize
    pending_size,        \* static int pending_size
    since_resize,        \* SDL_GetTicks() - last_resize_time, cut at MaxAge
    w,                   \* int w of the stabilized-resize block; 0 out of scope
    h,                   \* int h of the stabilized-resize block; 0 out of scope
    buf_index,           \* buf.index of the capture cycle; -1 when cleared
    calls,               \* the library / driver calls the last step issued
    argv,                \* argv[1 .. argc - 1], each a sequence of characters; << >> once parsed
    arg_i,               \* int i of the argument loop; 0 before its declaration
    video_device,        \* char *video_device: the string it points to, or NULL
    always_on_top,       \* int always_on_top
    dragging,            \* static int dragging
    drag_start_x,        \* static int drag_start_x
    drag_start_y,        \* static int drag_start_y
    win_start_x,         \* static int win_start_x
    win_start_y,         \* static int win_start_y
    win_x,               \* the x position of the window, relative to where it was created
    win_y,               \* the y position of the window, relative to where it was created
    base_size,           \* history: current_window_size when the step sequence began
    deltas,              \* history: the signs of the keyboard / wheel steps since
    last_candidate,      \* history: min(data1, data2) of the last SIZE_CHANGED event
    last_event,          \* history: the event the last step handled, with the pointer it read
    failed               \* history: the slots whose requeue failed, one entry per failure

pvars == <<pc, exit_code, i, sdl_up, fd_open, req_count, buffers_alloc,
           mapped, queued, dequeued, streaming, window, renderer, texture,
           shape_surface, window_shape, window_size, current_window_size,
           running, pending_resize, pending_size, since_resize, w, h,
           buf_index, calls>>

\* The command line as main() has parsed it.
argvars == <<argv, arg_i, video_device, always_on_top>>

\* The drag state and the position of the window.
dragvars == <<dragging, drag_start_x, drag_start_y, win_start_x, win_start_y,
              win_x, win_y>>

hvars == <<base_size, deltas, last_candidate, last_event, failed>>

\* What a step of main() from SDL_Init on leaves alone unless it is a mouse
\* button or motion handler: the parsed command line, the drag state, and
\* the history.
ovars == <<argvars, dragvars, hvars>>

vars == <<pvars, ovars>>

devvars == <<sdl_up, fd_open, req_count, buffers_alloc, mapped, queued,
             dequeued, streaming>>

sdlvars == <<window, renderer, texture, shape_surface, window_shape>>

geomvars == <<window_size, current_window_size, pending_resize,
              pending_size, since_resize, w, h>>

(***************************************************************************)
(* Helpers.                                                                *)
(***************************************************************************)
Range(seq) == {seq[k] : k \in 1 .. Len(seq)}

Slots == 0 .. (req_count - 1)

\* if (window_size < MIN_WINDOW_SIZE) window_size = MIN_WINDOW_SIZE;
ClampMin(size) == IF size < MIN_WINDOW_SIZE THEN MIN_WINDOW_SIZE ELSE size

\* atoi(s) is (int) strtol(s, NULL, 10): the characters of isspace() are
\* skipped, then an optional sign, then the decimal digits up to the first
\* character that is none.  strtol gives a long of 64 bits, LONG_MAX or
\* LONG_MIN when the digits are beyond it; the conversion to int keeps the
\* low 32 bits.  (For a value outside int the C standard leaves atoi
\* undefined; this is what the C library of the build does.)
Digits == <<"0", "1", "2", "3", "4", "5", "6", "7", "8", "9">>

IsDigit(c) == \E k \in 1 .. Len(Digits) : Digits[k] = c

DigitVal(c) == (CHOOSE k \in 1 .. Len(Digits) : Digits[k] = c) - 1

\* The characters of isspace(): space, \t, \n, \r, \f and the vertical tab,
\* which is written "\\v" here.
Whitespace == {" ", "\t", "\n", "\r", "\f", "\\v"}

\* The magnitude of the digits is kept in four limbs of 16 bits, the lowest
\* first, with over set once it does not fit into 64 bits.
Limb == 65536

NoDigits == [l |-> <<0, 0, 0, 0>>, over |-> FALSE]

RECURSIVE AtoiDigits(_, _)
AtoiDigits(s, acc) ==
    IF s = << >> \/ ~IsDigit(Head(s)) THEN acc
    ELSE LET t1 == acc.l[1] * 10 + DigitVal(Head(s))
             t2 == acc.l[2] * 10 + t1 \div Limb
             t3 == acc.l[3] * 10 + t2 \div Limb
             t4 == acc.l[4] * 10 + t3 \div Limb
         IN  AtoiDigits(Tail(s),
                        [l |-> <<t1 % Limb, t2 % Limb, t3 % Limb, t4 % Limb>>,
                         over |-> acc.over \/ t4 \div Limb > 0])

\* The int whose 32 bits are the limbs hi and lo.
Int32(hi, lo) ==
    IF hi >= Limb \div 2 THEN (hi - Limb) * Limb + lo ELSE hi * Limb + lo

\* (int) of the long strtol returns for the digits s after the sign.
AtoiSigned(negative, s) ==
    LET m == AtoiDigits(s, NoDigits)
        v == Int32(m.l[2], m.l[1])
    IN  IF m.over \/ m.l[4] >= Limb \div 2
        THEN IF negative THEN 0 ELSE -1
        ELSE IF ~negative THEN v
        ELSE IF m.l[2] = Limb \div 2 /\ m.l[1] = 0 THEN v
        ELSE 0 - v

RECURSIVE Atoi(_)
Atoi(s) ==
    IF s = << >> THEN 0
    ELSE IF Head(s) \in Whitespace THEN Atoi(Tail(s))
    ELSE IF Head(s) = "-" THEN AtoiSigned(TRUE, Tail(s))
    ELSE IF Head(s) = "+" THEN AtoiSigned(FALSE, Tail(s))
    ELSE AtoiSigned(FALSE, s)

\* argc
Argc == Len(argv) + 1

\* The history of a run in which no step has handled an event yet.
NoEvent == [type |-> "NONE", button |-> "NONE", x |-> 0, y |-> 0]

Abs(n) == IF n < 0 THEN 0 - n ELSE n

\* The outcomes of create_circular_shape(size): a surface of that size, or
\* NULL (0) when SDL_CreateRGBSurface fails.
ShapeResults(size) == {size, 0}

\* What SDL_GetWindowSize reads back after SDL_SetWindowSize(size, size):
\* the window manager honours the request, returns a non-square size, or
\* returns another square size.
WMResults(size) == {<<size, size>>, <<size, size + SIZE_STEP>>,
                    <<size + SIZE_STEP, size + SIZE_STEP>>}

\* Stabilized with a window of TimeQuantum milliseconds.
StabilizedEarly(age) == age >= TimeQuantum

\* SDL_GetTicks() - last_resize_time >= RESIZE_STABILIZE_MS, age being the
\* difference.  The difference is a Uint32 that cannot wrap here: the loop
\* comes by at least every SELECT_TIMEOUT_MS, far below 2^32 ms.
Stabilized(age) == age >= RESIZE_STABILIZE_MS

\* The time that passes up to the SDL_GetTicks() of the stabilized-resize
\* check since the clock was last followed (the select() before, or the
\* SDL_GetTicks() of a recorded event): none, TimeQuantum, or more than is
\* followed.
TickDelays == {0, TimeQuantum, MaxAge}

\* The clock moves on by d milliseconds.
Elapse(d) == IF since_resize + d > MaxAge THEN MaxAge ELSE since_resize + d

\* return code; after the calls cs.
Return(code, cs) ==
    /\ pc' = "exited"
    /\ exit_code' = code
    /\ calls' = cs

\* A signal ends the process after the calls cs: nothing is released by the
\* program, and main() does not return.
Killed(cs) ==
    /\ pc' = "killed"
    /\ exit_code' = KilledStatus
    /\ calls' = cs

\* The command line -s <size> <video_device> after main() has parsed it.
\* argv and the loop's i are not read again after the argument loop, and
\* are dropped with its end.
Parsed ==
    /\ argv = << >>
    /\ arg_i = 0
    /\ video_device = DevPath
    /\ always_on_top = 0

\* The drag state as the program starts: the statics are zero, the window
\* is where it was created.
NoDrag ==
    /\ dragging = 0
    /\ drag_start_x = 0
    /\ drag_start_y = 0
    /\ win_start_x = 0
    /\ win_start_y = 0
    /\ win_x = 0
    /\ win_y = 0

Init ==
    /\ pc = "sdl_init"
    /\ exit_code = -1
    /\ i = 0
    /\ sdl_up = FALSE
    /\ fd_open = FALSE
    /\ req_count = ReqCount
    /\ buffers_alloc = FALSE
    /\ mapped = {}
    /\ queued = {}
    /\ dequeued = {}
    /\ streaming = FALSE
    /\ window = FALSE
    /\ renderer = FALSE
    /\ texture = FALSE
    /\ shape_surface = 0
    /\ window_shape = 0
    /\ window_size \in InitSizes
    /\ current_window_size = 0
    /\ running = 0
    /\ pending_resize = 0
    /\ pending_size = 0
    /\ since_resize = 0
    /\ w = 0
    /\ h = 0
    /\ buf_index = -1
    /\ calls = << >>
    /\ Parsed
    /\ NoDrag
    /\ base_size = 0
    /\ deltas = << >>
    /\ last_candidate = 0
    /\ last_event = NoEvent
    /\ failed = << >>

(***************************************************************************)
(* Argument parsing, lines 63-96.  A message to standard error is kept in  *)
(* calls as the fprintf that writes it.                                    *)
(***************************************************************************)
UsageError == <<"fprintf(Usage)", "fprintf(Example)">>

MissingSizeError == <<"fprintf(Error: -s requires a size value)">>

SizeError == <<"fprintf(Error: Size must be at least 100 pixels)">>

NoDeviceError == <<"fprintf(Error: No video device specified)", "fprintf(Usage)">>

\* What argument parsing never touches.
noargvars == <<i, devvars, sdlvars, current_window_size, running,
               pending_resize, pending_size, since_resize, w, h, buf_index,
               dragvars, hvars>>

\* if (argc < 2 || argc > 5) ...; int i = 1;
CheckArgc ==
    /\ pc = "argc"
    /\ IF Argc < MinArgc \/ Argc > MaxArgc
       THEN /\ Return(1, UsageError)
            /\ UNCHANGED arg_i
       ELSE /\ arg_i' = 1
            /\ pc' = "parse"
            /\ calls' = << >>
            /\ UNCHANGED exit_code
    /\ UNCHANGED <<argv, video_device, always_on_top, window_size>>
    /\ UNCHANGED noargvars

\* while (i < argc): where the loop goes with i = next.
NextArg(next) ==
    /\ arg_i' = next
    /\ pc' = IF next < Argc THEN "parse" ELSE "check_device"
    /\ calls' = << >>
    /\ UNCHANGED exit_code

\* ParseArg without the test against MIN_SIZE.
ParseArgNoMin ==
    /\ pc = "parse"
    /\ arg_i < Argc
    /\ IF argv[arg_i] = TokT
       THEN /\ always_on_top' = 1
            /\ NextArg(arg_i + 1)
            /\ UNCHANGED <<window_size, video_device>>
       ELSE IF argv[arg_i] = TokS
       THEN IF arg_i + 1 >= Argc
            THEN /\ Return(1, MissingSizeError)
                 /\ UNCHANGED <<arg_i, window_size, video_device,
                                always_on_top>>
            ELSE /\ window_size' = Atoi(argv[arg_i + 1])
                 /\ NextArg(arg_i + 2)
                 /\ UNCHANGED <<video_device, always_on_top>>
       ELSE /\ video_device' = argv[arg_i]
            /\ NextArg(arg_i + 1)
            /\ UNCHANGED <<window_size, always_on_top>>
    /\ UNCHANGED argv
    /\ UNCHANGED noargvars

\* One iteration of the argument loop, lines 71-90.
ParseArg ==
    /\ pc = "parse"
    /\ arg_i < Argc
    /\ IF argv[arg_i] = TokT
       THEN /\ always_on_top' = 1
            /\ NextArg(arg_i + 1)
            /\ UNCHANGED <<window_size, video_device>>
       ELSE IF argv[arg_i] = TokS
       THEN IF arg_i + 1 >= Argc
            THEN /\ Return(1, MissingSizeError)
                 /\ UNCHANGED <<arg_i, window_size, video_device,
                                always_on_top>>
            ELSE /\ window_size' = Atoi(argv[arg_i + 1])
                 /\ IF window_size' < MIN_SIZE
                    THEN /\ Return(1, SizeError)
                         /\ UNCHANGED arg_i
                    ELSE NextArg(arg_i + 2)
                 /\ UNCHANGED <<video_device, always_on_top>>
       ELSE /\ video_device' = argv[arg_i]
            /\ NextArg(arg_i + 1)
            /\ UNCHANGED <<window_size, always_on_top>>
    /\ UNCHANGED argv
    /\ UNCHANGED noargvars

\* if (!video_device) ...; argv and i are not read again.
CheckDevice ==
    /\ pc = "check_device"
    /\ IF video_device = NULL
       THEN /\ Return(1, NoDeviceError)
            /\ UNCHANGED <<argv, arg_i>>
       ELSE /\ pc' = "sdl_init"
            /\ argv' = << >>
            /\ arg_i' = 0
            /\ calls' = << >>
            /\ UNCHANGED exit_code
    /\ UNCHANGED <<video_device, always_on_top, window_size>>
    /\ UNCHANGED noargvars

(***************************************************************************)
(* Initialisation, lines 98-276.  Every call either succeeds and main()    *)
(* moves on, or fails and main() runs the cleanup written at that place    *)
(* and returns 1.                                                          *)
(***************************************************************************)
SDLInit ==
    /\ pc = "sdl_init"
    /\ \/ /\ sdl_up' = TRUE
          /\ pc' = "open"
          /\ calls' = <<"SDL_Init">>
          /\ UNCHANGED exit_code
       \/ /\ Return(1, <<"SDL_Init">>)
          /\ UNCHANGED sdl_up
    /\ UNCHANGED <<i, fd_open, req_count, buffers_alloc, mapped, queued,
                   dequeued, streaming, sdlvars, geomvars, running, buf_index>>
    /\ UNCHANGED ovars

\* fd = open(video_device, O_RDWR): no file has the empty path.
OpenDevice ==
    /\ pc = "open"
    /\ \/ /\ video_device # Empty
          /\ fd_open' = TRUE
          /\ pc' = "querycap"
          /\ calls' = <<"open">>
          /\ UNCHANGED <<exit_code, sdl_up>>
       \/ /\ Return(1, <<"open", "SDL_Quit">>)
          /\ sdl_up' = FALSE
          /\ UNCHANGED fd_open
    /\ UNCHANGED <<i, req_count, buffers_alloc, mapped, queued, dequeued,
                   streaming, sdlvars, geomvars, running, buf_index>>
    /\ UNCHANGED ovars

\* VIDIOC_QUERYCAP fails, or the device has no V4L2_CAP_VIDEO_CAPTURE.
QueryCap ==
    /\ pc = "querycap"
    /\ \/ /\ pc' = "s_fmt"
          /\ calls' = <<"VIDIOC_QUERYCAP">>
          /\ UNCHANGED <<exit_code, sdl_up, fd_open>>
       \/ /\ Return(1, <<"VIDIOC_QUERYCAP", "close", "SDL_Quit">>)
          /\ fd_open' = FALSE
          /\ sdl_up' = FALSE
    /\ UNCHANGED <<i, req_count, buffers_alloc, mapped, queued, dequeued,
                   streaming, sdlvars, geomvars, running, buf_index>>
    /\ UNCHANGED ovars

SetFormat ==
    /\ pc = "s_fmt"
    /\ \/ /\ pc' = "reqbufs"
          /\ calls' = <<"VIDIOC_S_FMT">>
          /\ UNCHANGED <<exit_code, sdl_up, fd_open>>
       \/ /\ Return(1, <<"VIDIOC_S_FMT", "close", "SDL_Quit">>)
          /\ fd_open' = FALSE
          /\ sdl_up' = FALSE
    /\ UNCHANGED <<i, req_count, buffers_alloc, mapped, queued, dequeued,
                   streaming, sdlvars, geomvars, running, buf_index>>
    /\ UNCHANGED ovars

\* VIDIOC_REQBUFS: the driver writes the number it granted into req.count;
\* main() does not compare it with the 4 it asked for and callocs req.count
\* entries.  calloc returns the array or NULL, and main() does not test
\* which.
ReqBufs ==
    /\ pc = "reqbufs"
    /\ \/ /\ \E granted \in Grants : req_count' = granted
          /\ buffers_alloc' \in BOOLEAN
          /\ i' = 0
          /\ pc' = "map"
          /\ calls' = <<"VIDIOC_REQBUFS", "calloc">>
          /\ UNCHANGED <<exit_code, sdl_up, fd_open>>
       \/ /\ Return(1, <<"VIDIOC_REQBUFS", "close", "SDL_Quit">>)
          /\ fd_open' = FALSE
          /\ sdl_up' = FALSE
          /\ UNCHANGED <<i, req_count, buffers_alloc>>
    /\ UNCHANGED <<mapped, queued, dequeued, streaming, sdlvars, geomvars,
                   running, buf_index>>
    /\ UNCHANGED ovars

\* One iteration of the map loop: VIDIOC_QUERYBUF and mmap of slot i.  On a
\* failure main() frees the array and closes fd; it unmaps nothing.  After
\* a VIDIOC_QUERYBUF that succeeded, buffers[i].length = buf.length writes
\* through buffers: with buffers NULL that is undefined, and what the build
\* does is to end with SIGSEGV before the mmap.
MapBuffer ==
    /\ pc = "map"
    /\ i < req_count
    /\ \/ /\ buffers_alloc
          /\ mapped' = mapped \cup {i}
          /\ i' = IF i + 1 < req_count THEN i + 1 ELSE 0
          /\ pc' = IF i + 1 < req_count THEN "map" ELSE "queue"
          /\ calls' = <<"VIDIOC_QUERYBUF", "mmap">>
          /\ UNCHANGED <<exit_code, sdl_up, fd_open, buffers_alloc>>
       \/ /\ ~buffers_alloc
          /\ Killed(<<"VIDIOC_QUERYBUF">>)
          /\ UNCHANGED <<i, mapped, sdl_up, fd_open, buffers_alloc>>
       \/ /\ \E cs \in {<<"VIDIOC_QUERYBUF">>} \cup
                       (IF buffers_alloc THEN {<<"VIDIOC_QUERYBUF", "mmap">>}
                                         ELSE {}) :
                Return(1, cs \o <<"free", "close", "SDL_Quit">>)
          /\ buffers_alloc' = FALSE
          /\ fd_open' = FALSE
          /\ sdl_up' = FALSE
          /\ UNCHANGED <<i, mapped>>
    /\ UNCHANGED <<req_count, queued, dequeued, streaming, sdlvars, geomvars,
                   running, buf_index>>
    /\ UNCHANGED ovars

\* One iteration of the queue loop: VIDIOC_QBUF of slot i.
QueueBuffer ==
    /\ pc = "queue"
    /\ i < req_count
    /\ \/ /\ queued' = queued \cup {i}
          /\ i' = IF i + 1 < req_count THEN i + 1 ELSE 0
          /\ pc' = IF i + 1 < req_count THEN "queue" ELSE "streamon"
          /\ calls' = <<"VIDIOC_QBUF">>
          /\ UNCHANGED <<exit_code, sdl_up, fd_open, buffers_alloc>>
       \/ /\ Return(1, <<"VIDIOC_QBUF", "free", "close", "SDL_Quit">>)
          /\ buffers_alloc' = FALSE
          /\ fd_open' = FALSE
          /\ sdl_up' = FALSE
          /\ UNCHANGED <<i, queued>>
    /\ UNCHANGED <<req_count, mapped, dequeued, streaming, sdlvars, geomvars,
                   running, buf_index>>
    /\ UNCHANGED ovars

StreamOn ==
    /\ pc = "streamon"
    /\ \/ /\ streaming' = TRUE
          /\ pc' = "create_window"
          /\ calls' = <<"VIDIOC_STREAMON">>
          /\ UNCHANGED <<exit_code, sdl_up, fd_open, buffers_alloc>>
       \/ /\ Return(1, <<"VIDIOC_STREAMON", "free", "close", "SDL_Quit">>)
          /\ buffers_alloc' = FALSE
          /\ fd_open' = FALSE
          /\ sdl_up' = FALSE
          /\ UNCHANGED streaming
    /\ UNCHANGED <<i, req_count, mapped, queued, dequeued, sdlvars, geomvars,
                   running, buf_index>>
    /\ UNCHANGED ovars

\* FailAfterStreamOn without the VIDIOC_STREAMOFF.
FailAfterStreamOnNoStop(cs) ==
    /\ Return(1, cs \o <<"free", "close", "SDL_Quit">>)
    /\ buffers_alloc' = FALSE
    /\ fd_open' = FALSE
    /\ sdl_up' = FALSE
    /\ UNCHANGED <<i, req_count, mapped, queued, dequeued, streaming>>

\* The tail every failure after VIDIOC_STREAMON shares: VIDIOC_STREAMOFF,
\* free(buffers), close(fd), SDL_Quit(), return 1.  VIDIOC_STREAMOFF takes
\* every buffer out of the driver's queues.
FailAfterStreamOn(cs) ==
    /\ Return(1, cs \o <<"VIDIOC_STREAMOFF", "free", "close", "SDL_Quit">>)
    /\ streaming' = FALSE
    /\ queued' = {}
    /\ dequeued' = Slots
    /\ buffers_alloc' = FALSE
    /\ fd_open' = FALSE
    /\ sdl_up' = FALSE
    /\ UNCHANGED <<i, req_count, mapped>>

CreateWindow ==
    /\ pc = "create_window"
    /\ \/ /\ window' = TRUE
          /\ pc' = "create_renderer"
          /\ calls' = <<"SDL_CreateShapedWindow", "SDL_SetWindowResizable">>
          /\ UNCHANGED <<exit_code, i, devvars>>
       \/ /\ FailAfterStreamOn(<<"SDL_CreateShapedWindow">>)
          /\ UNCHANGED window
    /\ UNCHANGED <<renderer, texture, shape_surface, window_shape, geomvars,
                   running, buf_index>>
    /\ UNCHANGED ovars

CreateRenderer ==
    /\ pc = "create_renderer"
    /\ \/ /\ renderer' = TRUE
          /\ pc' = "create_shape"
          /\ calls' = <<"SDL_CreateRenderer">>
          /\ UNCHANGED <<exit_code, i, devvars, window>>
       \/ /\ FailAfterStreamOn(<<"SDL_CreateRenderer", "SDL_DestroyWindow">>)
          /\ window' = FALSE
          /\ UNCHANGED renderer
    /\ UNCHANGED <<texture, shape_surface, window_shape, geomvars, running,
                   buf_index>>
    /\ UNCHANGED ovars

\* shape_surface = create_circular_shape(window_size); SDL_SetWindowShape.
CreateShape ==
    /\ pc = "create_shape"
    /\ \E s \in ShapeResults(window_size) :
          IF s # 0
          THEN /\ shape_surface' = s
               /\ window_shape' = s
               /\ pc' = "create_texture"
               /\ calls' = <<"create_circular_shape", "SDL_SetWindowShape">>
               /\ UNCHANGED <<exit_code, i, devvars, window, renderer>>
          ELSE /\ FailAfterStreamOn(<<"create_circular_shape",
                                      "SDL_DestroyRenderer", "SDL_DestroyWindow">>)
               /\ renderer' = FALSE
               /\ window' = FALSE
               /\ UNCHANGED <<shape_surface, window_shape>>
    /\ UNCHANGED <<texture, geomvars, running, buf_index>>
    /\ UNCHANGED ovars

\* SDL_CreateTexture; then current_window_size = window_size; running = 1.
CreateTexture ==
    /\ pc = "create_texture"
    /\ \/ /\ texture' = TRUE
          /\ current_window_size' = window_size
          /\ running' = 1
          /\ pc' = "loop_test"
          /\ calls' = <<"SDL_CreateTexture">>
          /\ UNCHANGED <<exit_code, i, devvars, window, renderer,
                         shape_surface, window_shape>>
       \/ /\ FailAfterStreamOn(<<"SDL_CreateTexture", "SDL_FreeSurface",
                                 "SDL_DestroyRenderer", "SDL_DestroyWindow">>)
          /\ shape_surface' = 0
          /\ renderer' = FALSE
          /\ window' = FALSE
          /\ UNCHANGED <<texture, current_window_size, running, window_shape>>
    /\ UNCHANGED <<window_size, pending_resize, pending_size, since_resize,
                   w, h, buf_index>>
    /\ UNCHANGED ovars

(***************************************************************************)
(* The main loop, lines 278-431.                                           *)
(***************************************************************************)
\* while (running)
LoopTest ==
    /\ pc = "loop_test"
    /\ pc' = IF running # 0 THEN "poll" ELSE "cleanup"
    /\ calls' = << >>
    /\ UNCHANGED <<exit_code, i, devvars, sdlvars, geomvars, running, buf_index>>
    /\ UNCHANGED ovars

\* case SDL_QUIT, and SDL_KEYDOWN with SDLK_ESCAPE: running = 0.
PollQuit ==
    /\ pc = "poll"
    /\ running' = 0
    /\ calls' = << >>
    /\ UNCHANGED <<pc, exit_code, i, devvars, sdlvars, geomvars, buf_index>>
    /\ UNCHANGED ovars

PollKeyEscape ==
    /\ pc = "poll"
    /\ running' = 0
    /\ calls' = << >>
    /\ UNCHANGED <<pc, exit_code, i, devvars, sdlvars, geomvars, buf_index>>
    /\ UNCHANGED ovars

\* The statements the '+', '-' and wheel handlers share, once window_size
\* holds the target: clamp, SDL_SetWindowSize, SDL_FreeSurface,
\* create_circular_shape, SDL_SetWindowShape when the surface is not NULL,
\* and current_window_size = window_size.
RequestResize(target) ==
    /\ window_size' = ClampMin(target)
    /\ \E s \in ShapeResults(window_size') :
          /\ shape_surface' = s
          /\ window_shape' = IF s # 0 THEN s ELSE window_shape
          /\ calls' = <<"SDL_SetWindowSize", "SDL_FreeSurface",
                        "create_circular_shape">>
                      \o (IF s # 0 THEN <<"SDL_SetWindowShape">> ELSE << >>)
    /\ current_window_size' = window_size'

\* window_size = current_window_size +/- SIZE_STEP of the key handlers;
\* sym is "PLUS" (SDLK_PLUS, SDLK_EQUALS) or "MINUS".
KeyTarget(sym) ==
    IF sym = "PLUS" THEN current_window_size + SIZE_STEP
                    ELSE current_window_size - SIZE_STEP

\* WheelTarget with the step scaled by the wheel amount.
WheelTargetScaled(y) ==
    IF y # 0 THEN current_window_size + y * SIZE_STEP ELSE window_size

\* The same of the wheel handler; with event.wheel.y = 0 window_size keeps
\* the value it has.
WheelTarget(y) ==
    IF y > 0 THEN current_window_size + SIZE_STEP
    ELSE IF y < 0 THEN current_window_size - SIZE_STEP
    ELSE window_size

\* KeyResize dropping a resize that is pending.
KeyResizeCancelsPending(sym) ==
    /\ pc = "poll"
    /\ KeyTarget(sym) <= MaxSize
    /\ RequestResize(KeyTarget(sym))
    /\ pending_resize' = 0
    /\ UNCHANGED <<pc, exit_code, i, devvars, window, renderer, texture,
                   running, pending_size, since_resize, w, h, buf_index>>

\* case SDL_KEYDOWN with SDLK_PLUS, SDLK_EQUALS or SDLK_MINUS, lines 290-314.
KeyResize(sym) ==
    /\ pc = "poll"
    /\ KeyTarget(sym) <= MaxSize
    /\ RequestResize(KeyTarget(sym))
    /\ UNCHANGED <<pc, exit_code, i, devvars, window, renderer, texture,
                   running, pending_resize, pending_size, since_resize, w, h,
                   buf_index>>

WheelResize(y) ==
    /\ pc = "poll"
    /\ WheelTarget(y) <= MaxSize
    /\ RequestResize(WheelTarget(y))
    /\ UNCHANGED <<pc, exit_code, i, devvars, window, renderer, texture,
                   running, pending_resize, pending_size, since_resize, w, h,
                   buf_index>>

PollKeyResize(sym) == KeyResize(sym) /\ UNCHANGED ovars

PollWheel(y) == WheelResize(y) /\ UNCHANGED ovars

\* int new_size = data1 < data2 ? data1 : data2;
NewSize(data1, data2) == IF data1 < data2 THEN data1 ELSE data2

\* Qualifies without the test against MIN_WINDOW_SIZE.
QualifiesAnySize(new_size) == new_size # current_window_size

\* if (new_size >= MIN_WINDOW_SIZE && new_size != current_window_size)
Qualifies(new_size) ==
    new_size >= MIN_WINDOW_SIZE /\ new_size # current_window_size

\* case SDL_WINDOWEVENT with SDL_WINDOWEVENT_SIZE_CHANGED.
SizeChanged(data1, data2) ==
    /\ pc = "poll"
    /\ IF Qualifies(NewSize(data1, data2))
       THEN /\ pending_resize' = 1
            /\ pending_size' = NewSize(data1, data2)
            /\ since_resize' = 0
       ELSE UNCHANGED <<pending_resize, pending_size, since_resize>>
    /\ calls' = << >>
    /\ UNCHANGED <<pc, exit_code, i, devvars, sdlvars, window_size,
                   current_window_size, running, w, h, buf_index>>

PollSizeChanged(data1, data2) == SizeChanged(data1, data2) /\ UNCHANGED ovars

\* case SDL_MOUSEBUTTONDOWN, lines 316-322.  (mx, my) is what
\* SDL_GetGlobalMouseState stores; SDL_GetWindowPosition stores the position
\* of the window.
MouseButtonDown(button, mx, my) ==
    /\ pc = "poll"
    /\ IF button = "LEFT"
       THEN /\ dragging' = 1
            /\ drag_start_x' = mx
            /\ drag_start_y' = my
            /\ win_start_x' = win_x
            /\ win_start_y' = win_y
            /\ calls' = <<"SDL_GetGlobalMouseState", "SDL_GetWindowPosition">>
       ELSE /\ calls' = << >>
            /\ UNCHANGED <<dragging, drag_start_x, drag_start_y, win_start_x,
                           win_start_y>>
    /\ UNCHANGED <<win_x, win_y>>
    /\ UNCHANGED <<pc, exit_code, i, devvars, sdlvars, geomvars, running,
                   buf_index, argvars>>

\* case SDL_MOUSEBUTTONUP, lines 323-327.
MouseButtonUp(button) ==
    /\ pc = "poll"
    /\ dragging' = IF button = "LEFT" THEN 0 ELSE dragging
    /\ calls' = << >>
    /\ UNCHANGED <<drag_start_x, drag_start_y, win_start_x, win_start_y,
                   win_x, win_y>>
    /\ UNCHANGED <<pc, exit_code, i, devvars, sdlvars, geomvars, running,
                   buf_index, argvars>>

\* MouseMotion placing the window at the pointer's offset from the anchor,
\* without the position the window had when the drag began.
MouseMotionAbsolute(mx, my) ==
    /\ pc = "poll"
    /\ IF dragging # 0
       THEN /\ Abs(mx - drag_start_x) <= MaxPos
            /\ Abs(my - drag_start_y) <= MaxPos
            /\ win_x' = mx - drag_start_x
            /\ win_y' = my - drag_start_y
            /\ calls' = <<"SDL_GetGlobalMouseState", "SDL_SetWindowPosition">>
       ELSE /\ calls' = << >>
            /\ UNCHANGED <<win_x, win_y>>
    /\ UNCHANGED <<dragging, drag_start_x, drag_start_y, win_start_x,
                   win_start_y>>
    /\ UNCHANGED <<pc, exit_code, i, devvars, sdlvars, geomvars, running,
                   buf_index, argvars>>

\* case SDL_MOUSEMOTION, lines 328-336.  (mx, my) is what
\* SDL_GetGlobalMouseState stores in mouse_x, mouse_y.
MouseMotion(mx, my) ==
    /\ pc = "poll"
    /\ IF dragging # 0
       THEN /\ Abs(win_start_x + (mx - drag_start_x)) <= MaxPos
            /\ Abs(win_start_y + (my - drag_start_y)) <= MaxPos
            /\ win_x' = win_start_x + (mx - drag_start_x)
            /\ win_y' = win_start_y + (my - drag_start_y)
            /\ calls' = <<"SDL_GetGlobalMouseState", "SDL_SetWindowPosition">>
       ELSE /\ calls' = << >>
            /\ UNCHANGED <<win_x, win_y>>
    /\ UNCHANGED <<dragging, drag_start_x, drag_start_y, win_start_x,
                   win_start_y>>
    /\ UNCHANGED <<pc, exit_code, i, devvars, sdlvars, geomvars, running,
                   buf_index, argvars>>

PollMouseButtonDown(button, mx, my) ==
    MouseButtonDown(button, mx, my) /\ UNCHANGED hvars

PollMouseButtonUp(button) == MouseButtonUp(button) /\ UNCHANGED hvars

PollMouseMotion(mx, my) == MouseMotion(mx, my) /\ UNCHANGED hvars

\* An event the switch has no case for: another key, another window event.
PollOther ==
    /\ pc = "poll"
    /\ calls' = << >>
    /\ UNCHANGED <<pc, exit_code, i, devvars, sdlvars, geomvars, running,
                   buf_index>>
    /\ UNCHANGED ovars

\* SDL_PollEvent returns 0: the event queue is drained.
PollEmpty ==
    /\ pc = "poll"
    /\ pc' = "tick"
    /\ calls' = << >>
    /\ UNCHANGED <<exit_code, i, devvars, sdlvars, geomvars, running,
                   buf_index>>
    /\ UNCHANGED ovars

\* Accepted without the test for a square size.
AcceptedNotSquare(rw, rh) == rw = pending_size

\* if (w == h && w == pending_size)
Accepted(rw, rh) == rw = rh /\ rw = pending_size

\* TickPendingResize keeping a rejected resize pending, to be tried again.
TickPendingResizeRetry ==
    /\ pc = "tick"
    /\ pc' = "render"
    /\ \E d \in TickDelays : since_resize' = Elapse(d)
    /\ IF pending_resize # 0 /\ Stabilized(since_resize')
       THEN /\ \E r \in WMResults(pending_size) :
                 /\ w' = r[1]
                 /\ h' = r[2]
                 /\ IF Accepted(r[1], r[2])
                    THEN /\ window_size' = pending_size
                         /\ current_window_size' = window_size'
                         /\ \E s \in ShapeResults(window_size') :
                               /\ shape_surface' = s
                               /\ window_shape' =
                                     IF s # 0 THEN s ELSE window_shape
                               /\ calls' = <<"SDL_SetWindowSize",
                                             "SDL_GetWindowSize",
                                             "SDL_FreeSurface",
                                             "create_circular_shape">>
                                     \o (IF s # 0 THEN <<"SDL_SetWindowShape">>
                                                  ELSE << >>)
                    ELSE /\ calls' = <<"SDL_SetWindowSize",
                                       "SDL_GetWindowSize", "printf">>
                         /\ UNCHANGED <<window_size, current_window_size,
                                        shape_surface, window_shape>>
                 /\ pending_resize' = IF Accepted(r[1], r[2]) THEN 0 ELSE 1
       ELSE /\ calls' = << >>
            /\ UNCHANGED <<window_size, current_window_size, shape_surface,
                           window_shape, pending_resize, w, h>>
    /\ UNCHANGED <<exit_code, i, devvars, window, renderer, texture, running,
                   pending_size, buf_index>>
    /\ UNCHANGED ovars

\* Check for stabilized resize, lines 367-385.  The clock it reads has moved
\* on since the select() by what the event handling took.
TickPendingResize ==
    /\ pc = "tick"
    /\ pc' = "render"
    /\ \E d \in TickDelays : since_resize' = Elapse(d)
    /\ IF pending_resize # 0 /\ Stabilized(since_resize')
       THEN /\ \E r \in WMResults(pending_size) :
                 /\ w' = r[1]
                 /\ h' = r[2]
                 /\ IF Accepted(r[1], r[2])
                    THEN /\ window_size' = pending_size
                         /\ current_window_size' = window_size'
                         /\ \E s \in ShapeResults(window_size') :
                               /\ shape_surface' = s
                               /\ window_shape' =
                                     IF s # 0 THEN s ELSE window_shape
                               /\ calls' = <<"SDL_SetWindowSize",
                                             "SDL_GetWindowSize",
                                             "SDL_FreeSurface",
                                             "create_circular_shape">>
                                     \o (IF s # 0 THEN <<"SDL_SetWindowShape">>
                                                  ELSE << >>)
                    ELSE /\ calls' = <<"SDL_SetWindowSize",
                                       "SDL_GetWindowSize", "printf">>
                         /\ UNCHANGED <<window_size, current_window_size,
                                        shape_surface, window_shape>>
            /\ pending_resize' = 0
       ELSE /\ calls' = << >>
            /\ UNCHANGED <<window_size, current_window_size, shape_surface,
                           window_shape, pending_resize, w, h>>
    /\ UNCHANGED <<exit_code, i, devvars, window, renderer, texture, running,
                   pending_size, buf_index>>
    /\ UNCHANGED ovars

\* Render the cropped square at current_window_size, lines 387-391.  The
\* block that declared w and h has been left.
Render ==
    /\ pc = "render"
    /\ pc' = "select"
    /\ w' = 0
    /\ h' = 0
    /\ calls' = <<"SDL_RenderClear", "SDL_RenderCopy", "SDL_RenderPresent">>
    /\ UNCHANGED <<exit_code, i, devvars, sdlvars, window_size,
                   current_window_size, running, pending_resize, pending_size,
                   since_resize, buf_index>>
    /\ UNCHANGED ovars

\* SelectWait with a failed select() ending the loop.
SelectWaitFatal(r, d) ==
    /\ pc = "select"
    /\ (r = 0) <=> (d = SELECT_TIMEOUT_MS)
    /\ since_resize' = Elapse(d)
    /\ pc' = IF r > 0 THEN "dqbuf" ELSE "loop_test"
    /\ running' = IF r < 0 THEN 0 ELSE running
    /\ calls' = <<"select">> \o (IF r < 0 THEN <<"perror">>
                                 ELSE IF r = 0 THEN <<"fprintf">> ELSE << >>)
    /\ UNCHANGED <<exit_code, i, devvars, sdlvars, window_size,
                   current_window_size, pending_resize, pending_size,
                   w, h, buf_index>>
    /\ UNCHANGED ovars

\* select() with the 2 s timeout, lines 399-412: r < 0 and r == 0 continue
\* the loop.  A timeout takes the whole timeout; any other return takes 0 or
\* TimeQuantum milliseconds.
SelectWait(r, d) ==
    /\ pc = "select"
    /\ (r = 0) <=> (d = SELECT_TIMEOUT_MS)
    /\ since_resize' = Elapse(d)
    /\ pc' = IF r > 0 THEN "dqbuf" ELSE "loop_test"
    /\ calls' = <<"select">> \o (IF r < 0 THEN <<"perror">>
                                 ELSE IF r = 0 THEN <<"fprintf">> ELSE << >>)
    /\ UNCHANGED <<exit_code, i, devvars, sdlvars, window_size,
                   current_window_size, running, pending_resize, pending_size,
                   w, h, buf_index>>
    /\ UNCHANGED ovars

\* DQBuf without the continue of the failure branch.
DQBufNoContinue ==
    /\ pc = "dqbuf"
    /\ \/ \E s \in queued :
             /\ buf_index' = s
             /\ queued' = queued \ {s}
             /\ dequeued' = dequeued \cup {s}
             /\ pc' = "consume"
             /\ calls' = <<"VIDIOC_DQBUF">>
       \/ /\ pc' = "consume"
          /\ calls' = <<"VIDIOC_DQBUF", "perror">>
          /\ UNCHANGED <<buf_index, queued, dequeued>>
    /\ UNCHANGED <<exit_code, i, sdl_up, fd_open, req_count, buffers_alloc,
                   mapped, streaming, sdlvars, geomvars, running>>
    /\ UNCHANGED ovars

\* VIDIOC_DQBUF, lines 414-422: the driver hands over one of the slots it
\* holds and writes its index into buf.index, or the ioctl fails.
DQBuf ==
    /\ pc = "dqbuf"
    /\ \/ \E s \in queued :
             /\ buf_index' = s
             /\ queued' = queued \ {s}
             /\ dequeued' = dequeued \cup {s}
             /\ pc' = "consume"
             /\ calls' = <<"VIDIOC_DQBUF">>
       \/ /\ pc' = "loop_test"
          /\ calls' = <<"VIDIOC_DQBUF", "perror">>
          /\ UNCHANGED <<buf_index, queued, dequeued>>
    /\ UNCHANGED <<exit_code, i, sdl_up, fd_open, req_count, buffers_alloc,
                   mapped, streaming, sdlvars, geomvars, running>>
    /\ UNCHANGED ovars

\* SDL_UpdateTexture(texture, NULL, buffers[buf.index].start, ...).
UpdateTexture ==
    /\ pc = "consume"
    /\ pc' = "qbuf"
    /\ calls' = <<"SDL_UpdateTexture">>
    /\ UNCHANGED <<exit_code, i, devvars, sdlvars, geomvars, running,
                   buf_index>>
    /\ UNCHANGED ovars

\* Requeue also handing back, with the slot just consumed, every slot held
\* since an earlier failure.
RequeueAllHeld ==
    /\ pc = "qbuf"
    /\ pc' = "loop_test"
    /\ buf_index' = -1
    /\ \/ /\ queued' = queued \cup dequeued
          /\ dequeued' = {}
          /\ calls' = <<"VIDIOC_QBUF">>
       \/ /\ calls' = <<"VIDIOC_QBUF", "perror">>
          /\ UNCHANGED <<queued, dequeued>>
    /\ UNCHANGED <<exit_code, i, sdl_up, fd_open, req_count, buffers_alloc,
                   mapped, streaming, sdlvars, geomvars, running>>

\* VIDIOC_QBUF of the slot just consumed, lines 427-430; a failure is only
\* reported.  buf goes out of scope at the end of the loop body.
Requeue ==
    /\ pc = "qbuf"
    /\ pc' = "loop_test"
    /\ buf_index' = -1
    /\ \/ /\ queued' = queued \cup {buf_index}
          /\ dequeued' = dequeued \ {buf_index}
          /\ calls' = <<"VIDIOC_QBUF">>
       \/ /\ calls' = <<"VIDIOC_QBUF", "perror">>
          /\ UNCHANGED <<queued, dequeued>>
    /\ UNCHANGED <<exit_code, i, sdl_up, fd_open, req_count, buffers_alloc,
                   mapped, streaming, sdlvars, geomvars, running>>

QBuf == Requeue /\ UNCHANGED ovars

(***************************************************************************)
(* Cleanup, lines 433-446.                                                 *)
(***************************************************************************)
CleanupSDL ==
    /\ pc = "cleanup"
    /\ pc' = "streamoff"
    /\ texture' = FALSE
    /\ shape_surface' = 0
    /\ renderer' = FALSE
    /\ window' = FALSE
    /\ calls' = <<"SDL_DestroyTexture", "SDL_FreeSurface",
                  "SDL_DestroyRenderer", "SDL_DestroyWindow">>
    /\ UNCHANGED <<exit_code, i, devvars, window_shape, geomvars, running,
                   buf_index>>
    /\ UNCHANGED ovars

\* ioctl(fd, VIDIOC_STREAMOFF, &type): every buffer leaves the driver's queues.
StreamOff ==
    /\ pc = "streamoff"
    /\ pc' = "munmap"
    /\ i' = 0
    /\ streaming' = FALSE
    /\ queued' = {}
    /\ dequeued' = Slots
    /\ calls' = <<"VIDIOC_STREAMOFF">>
    /\ UNCHANGED <<exit_code, sdl_up, fd_open, req_count, buffers_alloc,
                   mapped, sdlvars, geomvars, running, buf_index>>
    /\ UNCHANGED ovars

\* One iteration of for (i = 0; i < req.count; i++) munmap(...).
Munmap ==
    /\ pc = "munmap"
    /\ i < req_count
    /\ mapped' = mapped \ {i}
    /\ i' = IF i + 1 < req_count THEN i + 1 ELSE 0
    /\ pc' = IF i + 1 < req_count THEN "munmap" ELSE "close"
    /\ calls' = <<"munmap">>
    /\ UNCHANGED <<exit_code, sdl_up, fd_open, req_count, buffers_alloc,
                   queued, dequeued, streaming, sdlvars, geomvars, running,
                   buf_index>>
    /\ UNCHANGED ovars

\* free(buffers); close(fd); SDL_Quit(); return 0;
CloseAndReturn ==
    /\ pc = "close"
    /\ Return(0, <<"free", "close", "SDL_Quit">>)
    /\ buffers_alloc' = FALSE
    /\ fd_open' = FALSE
    /\ sdl_up' = FALSE
    /\ UNCHANGED <<i, req_count, mapped, queued, dequeued, streaming,
                   sdlvars, geomvars, running, buf_index>>
    /\ UNCHANGED ovars

(***************************************************************************)
(* The program.                                                            *)
(***************************************************************************)
InitStep ==
    \/ SDLInit
    \/ OpenDevice
    \/ QueryCap
    \/ SetFormat
    \/ ReqBufs
    \/ MapBuffer
    \/ QueueBuffer
    \/ StreamOn
    \/ CreateWindow
    \/ CreateRenderer
    \/ CreateShape
    \/ CreateTexture

EventStep ==
    \/ PollQuit
    \/ PollKeyEscape
    \/ \E sym \in {"PLUS", "MINUS"} : PollKeyResize(sym)
    \/ \E y \in WheelYs : PollWheel(y)
    \/ \E data1, data2 \in ExtSizes : PollSizeChanged(data1, data2)
    \/ \E button \in Buttons, p \in RestPointers :
          PollMouseButtonDown(button, p[1], p[2])
    \/ \E button \in Buttons : PollMouseButtonUp(button)
    \/ \E p \in RestPointers : PollMouseMotion(p[1], p[2])
    \/ PollOther
    \/ PollEmpty

CaptureStep ==
    \/ \E r \in {-1, 0, 1}, d \in {0, TimeQuantum, SELECT_TIMEOUT_MS} :
          SelectWait(r, d)
    \/ DQBuf
    \/ UpdateTexture
    \/ QBuf

CleanupStep ==
    \/ CleanupSDL
    \/ StreamOff
    \/ Munmap
    \/ CloseAndReturn

Next ==
    \/ InitStep
    \/ LoopTest
    \/ EventStep
    \/ TickPendingResize
    \/ Render
    \/ CaptureStep
    \/ CleanupStep

Spec == Init /\ [][Next]_vars

(***************************************************************************)
(* The loop as it is entered: the state of the first SDL_PollEvent after   *)
(* an initialisation in which every call succeeded and the driver granted  *)
(* the 4 buffers.  The specifications below that follow one kind of input  *)
(* start here.                                                             *)
(***************************************************************************)
InitLoop ==
    /\ pc = "poll"
    /\ exit_code = -1
    /\ i = 0
    /\ sdl_up = TRUE
    /\ fd_open = TRUE
    /\ req_count = ReqCount
    /\ buffers_alloc = TRUE
    /\ mapped = 0 .. (ReqCount - 1)
    /\ queued = 0 .. (ReqCount - 1)
    /\ dequeued = {}
    /\ streaming = TRUE
    /\ window = TRUE
    /\ renderer = TRUE
    /\ texture = TRUE
    /\ window_size \in InitSizes
    /\ shape_surface = window_size
    /\ window_shape = window_size
    /\ current_window_size = window_size
    /\ running = 1
    /\ pending_resize = 0
    /\ pending_size = 0
    /\ since_resize = 0
    /\ w = 0
    /\ h = 0
    /\ buf_index = -1
    /\ calls = << >>
    /\ Parsed
    /\ NoDrag
    /\ base_size = window_size
    /\ deltas = << >>
    /\ last_candidate = 0
    /\ last_event = NoEvent
    /\ failed = << >>

(***************************************************************************)
(* SpecSteps: sequences of keyboard and wheel resize steps, with the signs *)
(* of the steps kept in deltas.                                            *)
(***************************************************************************)
Sign(y) == IF y > 0 THEN 1 ELSE IF y < 0 THEN -1 ELSE 0

StepKey(sym) ==
    /\ Len(deltas) < MaxSteps
    /\ KeyResize(sym)
    /\ deltas' = Append(deltas, IF sym = "PLUS" THEN 1 ELSE -1)
    /\ UNCHANGED <<argvars, dragvars, base_size, last_candidate, last_event,
                   failed>>

StepWheel(y) ==
    /\ Len(deltas) < MaxSteps
    /\ WheelResize(y)
    /\ deltas' = Append(deltas, Sign(y))
    /\ UNCHANGED <<argvars, dragvars, base_size, last_candidate, last_event,
                   failed>>

NextSteps ==
    \/ \E sym \in {"PLUS", "MINUS"} : StepKey(sym)
    \/ \E y \in WheelYs : StepWheel(y)

SpecSteps == InitLoop /\ [][NextSteps]_vars

(***************************************************************************)
(* SpecDebounce: the loop fed with window-manager resize events only, with *)
(* the candidate of the last reported event kept in last_candidate.        *)
(***************************************************************************)
RecordSizeChanged(data1, data2) ==
    /\ SizeChanged(data1, data2)
    /\ last_candidate' = NewSize(data1, data2)
    /\ UNCHANGED <<argvars, dragvars, base_size, deltas, last_event, failed>>

NextDebounce ==
    \/ LoopTest
    \/ \E data1, data2 \in ExtSizes : RecordSizeChanged(data1, data2)
    \/ PollEmpty
    \/ TickPendingResize
    \/ Render
    \/ CaptureStep

SpecDebounce == InitLoop /\ [][NextDebounce]_vars

(***************************************************************************)
(* SpecDrag: the event loop fed with mouse button and motion events and    *)
(* window-manager resize events, with the event of the last step and the   *)
(* pointer position it read kept in last_event.                            *)
(***************************************************************************)
DragButtonDown(button, mx, my) ==
    /\ MouseButtonDown(button, mx, my)
    /\ last_event' = [type |-> "SDL_MOUSEBUTTONDOWN", button |-> button,
                      x |-> IF button = "LEFT" THEN mx ELSE 0,
                      y |-> IF button = "LEFT" THEN my ELSE 0]
    /\ UNCHANGED <<base_size, deltas, last_candidate, failed>>

DragButtonUp(button) ==
    /\ MouseButtonUp(button)
    /\ last_event' = [type |-> "SDL_MOUSEBUTTONUP", button |-> button,
                      x |-> 0, y |-> 0]
    /\ UNCHANGED <<base_size, deltas, last_candidate, failed>>

DragMotion(mx, my) ==
    /\ MouseMotion(mx, my)
    /\ last_event' = [type |-> "SDL_MOUSEMOTION", button |-> "NONE",
                      x |-> IF dragging # 0 THEN mx ELSE 0,
                      y |-> IF dragging # 0 THEN my ELSE 0]
    /\ UNCHANGED <<base_size, deltas, last_candidate, failed>>

DragSizeChanged(data1, data2) ==
    /\ SizeChanged(data1, data2)
    /\ last_event' = [type |-> "SDL_WINDOWEVENT", button |-> "NONE",
                      x |-> 0, y |-> 0]
    /\ UNCHANGED <<argvars, dragvars, base_size, deltas, last_candidate,
                   failed>>

NextDrag ==
    \/ \E button \in Buttons, p \in Pointers :
          DragButtonDown(button, p[1], p[2])
    \/ \E button \in Buttons : DragButtonUp(button)
    \/ \E p \in Pointers : DragMotion(p[1], p[2])
    \/ \E data1, data2 \in ExtSizes : DragSizeChanged(data1, data2)

SpecDrag == InitLoop /\ [][NextDrag]_vars

(***************************************************************************)
(* SpecArgs: main() from its entry, over the command lines of up to        *)
(* MaxArgs arguments, through argument parsing, SDL_Init and open().       *)
(***************************************************************************)
InitArgs ==
    /\ pc = "argc"
    /\ exit_code = -1
    /\ i = 0
    /\ sdl_up = FALSE
    /\ fd_open = FALSE
    /\ req_count = ReqCount
    /\ buffers_alloc = FALSE
    /\ mapped = {}
    /\ queued = {}
    /\ dequeued = {}
    /\ streaming = FALSE
    /\ window = FALSE
    /\ renderer = FALSE
    /\ texture = FALSE
    /\ shape_surface = 0
    /\ window_shape = 0
    /\ window_size = DEFAULT_SIZE
    /\ current_window_size = 0
    /\ running = 0
    /\ pending_resize = 0
    /\ pending_size = 0
    /\ since_resize = 0
    /\ w = 0
    /\ h = 0
    /\ buf_index = -1
    /\ calls = << >>
    /\ argv \in ArgLists
    /\ arg_i = 0
    /\ video_device = NULL
    /\ always_on_top = 0
    /\ NoDrag
    /\ base_size = 0
    /\ deltas = << >>
    /\ last_candidate = 0
    /\ last_event = NoEvent
    /\ failed = << >>

NextArgs ==
    \/ CheckArgc
    \/ ParseArg
    \/ CheckDevice
    \/ SDLInit
    \/ OpenDevice

SpecArgs == InitArgs /\ [][NextArgs]_vars

(***************************************************************************)
(* SpecExit: the whole program with quit, Escape and window-manager resize *)
(* events, and with the progress the code's scheduling gives: the one      *)
(* thread goes on from wherever it is (every call returns, select() after  *)
(* its timeout at the latest), and the event queue holds finitely many     *)
(* events, so SDL_PollEvent returns 0 in the end.                          *)
(***************************************************************************)
NextExit ==
    \/ InitStep
    \/ LoopTest
    \/ PollQuit
    \/ PollKeyEscape
    \/ \E data1, data2 \in ExtSizes : PollSizeChanged(data1, data2)
    \/ PollOther
    \/ PollEmpty
    \/ TickPendingResize
    \/ Render
    \/ CaptureStep
    \/ CleanupStep

SpecExit ==
    Init /\ [][NextExit]_vars /\ WF_vars(NextExit) /\ WF_vars(PollEmpty)

(***************************************************************************)
(* SpecRequeue: the loop with no events, with the slot of every failed     *)
(* requeue appended to failed.                                             *)
(***************************************************************************)
RecordRequeue ==
    /\ Requeue
    /\ failed' = IF calls' = <<"VIDIOC_QBUF", "perror">>
                 THEN Append(failed, buf_index) ELSE failed
    /\ UNCHANGED <<argvars, dragvars, base_size, deltas, last_candidate,
                   last_event>>

NextRequeue ==
    \/ LoopTest
    \/ PollEmpty
    \/ TickPendingResize
    \/ Render
    \/ \E r \in {-1, 0, 1}, d \in {0, TimeQuantum, SELECT_TIMEOUT_MS} :
          SelectWait(r, d)
    \/ DQBuf
    \/ UpdateTexture
    \/ RecordRequeue

SpecRequeue == InitLoop /\ [][NextRequeue]_vars

(***************************************************************************)
(* SpecResolve: the loop fed with window-manager resize events of which,   *)
(* once a resize is pending, none qualifies any more, and with the         *)
(* progress the code's scheduling gives: the one thread goes on from       *)
(* wherever it is, SDL_PollEvent returns 0 in the end, and the clock does  *)
(* not stand still for ever (again and again a select() takes time).       *)
(***************************************************************************)
ResolveSizeChanged(data1, data2) ==
    /\ pending_resize = 0 \/ ~Qualifies(NewSize(data1, data2))
    /\ SizeChanged(data1, data2)
    /\ UNCHANGED ovars

\* A select() during which the clock moves on.
SelectTakesTime ==
    \E r \in {-1, 0, 1}, d \in {TimeQuantum, SELECT_TIMEOUT_MS} :
        SelectWait(r, d)

NextResolve ==
    \/ LoopTest
    \/ \E data1, data2 \in ExtSizes : ResolveSizeChanged(data1, data2)
    \/ PollOther
    \/ PollEmpty
    \/ TickPendingResize
    \/ Render
    \/ CaptureStep

SpecResolve ==
    /\ InitLoop
    /\ [][NextResolve]_vars
    /\ WF_vars(NextResolve)
    /\ WF_vars(PollEmpty)
    /\ SF_vars(SelectTakesTime)

(***************************************************************************)
(* SpecEvents: the loop fed with keyboard, wheel and window-manager resize *)
(* events, with the last event, and the candidate size of a               *)
(* window-manager event as its x, kept in last_event.                      *)
(***************************************************************************)
EventKey(sym) ==
    /\ KeyResize(sym)
    /\ last_event' = [type |-> "SDL_KEYDOWN", button |-> "NONE",
                      x |-> 0, y |-> 0]
    /\ UNCHANGED <<argvars, dragvars, base_size, deltas, last_candidate,
                   failed>>

EventWheel(y) ==
    /\ WheelResize(y)
    /\ last_event' = [type |-> "SDL_MOUSEWHEEL", button |-> "NONE",
                      x |-> 0, y |-> 0]
    /\ UNCHANGED <<argvars, dragvars, base_size, deltas, last_candidate,
                   failed>>

EventSizeChanged(data1, data2) ==
    /\ SizeChanged(data1, data2)
    /\ last_event' = [type |-> "SDL_WINDOWEVENT", button |-> "NONE",
                      x |-> NewSize(data1, data2), y |-> 0]
    /\ UNCHANGED <<argvars, dragvars, base_size, deltas, last_candidate,
                   failed>>

NextEvents ==
    \/ LoopTest
    \/ \E sym \in {"PLUS", "MINUS"} : EventKey(sym)
    \/ \E y \in WheelYs : EventWheel(y)
    \/ \E data1, data2 \in ExtSizes : EventSizeChanged(data1, data2)
    \/ PollEmpty
    \/ TickPendingResize
    \/ Render
    \/ CaptureStep

SpecEvents == InitLoop /\ [][NextEvents]_vars

(***************************************************************************)
(* The claims.                                                             *)
(***************************************************************************)
LoopPcs == {"loop_test", "poll", "tick", "render", "select", "dqbuf",
            "consume", "qbuf"}

\* The positions between the queue loop and the cleanup.
QueuedPcs == {"streamon", "create_window", "create_renderer", "create_shape",
              "create_texture"} \cup LoopPcs

\* C1: between enqueue_all and teardown each of the N = 4 pool slots is in
\* exactly one of the states queued and dequeued (so queued + dequeued = 4),
\* and a requeue is issued only for a slot that is dequeued.
C1_BufferConservation ==
    pc \in QueuedPcs =>
        /\ queued \cap dequeued = {}
        /\ queued \cup dequeued = 0 .. (ReqCount - 1)
        /\ Cardinality(queued) + Cardinality(dequeued) = ReqCount
        /\ pc = "qbuf" => buf_index \in dequeued /\ buf_index \notin queued

\* C5: once the driver has granted fewer buffers than the 4 requested, the
\* program never starts streaming and never enters the capture loop, and it
\* exits with code 1.
C5_ShortGrantIsFatal ==
    req_count < ReqCount =>
        /\ ~streaming
        /\ pc \notin LoopPcs
        /\ pc = "exited" => exit_code = 1

\* C6: when the process has exited, on whatever path, everything it had
\* acquired is released: no slot is still mapped, the device is closed, the
\* buffers array is freed, streaming is off, and window, renderer, texture,
\* mask and SDL are gone.  (Stated for the runs in which the driver granted
\* all 4 buffers, or had not answered yet.)
C6_NoLeakAtExit ==
    (pc = "exited" /\ req_count = ReqCount) =>
        /\ mapped = {}
        /\ ~fd_open
        /\ ~buffers_alloc
        /\ ~streaming
        /\ ~window
        /\ ~renderer
        /\ ~texture
        /\ shape_surface = 0
        /\ ~sdl_up

\* C7: whenever the loop polls events or renders, the shape mask applied to
\* the window has the size current_window_size: no resize commits the size
\* without the mask of that size.  (Stated for the runs in which the driver
\* granted all 4 buffers.)
C7_MaskSizeSync ==
    (pc \in {"poll", "render"} /\ req_count = ReqCount)
        => window_shape = current_window_size

\* C4: a resize request of an event handler whose target equals
\* current_window_size is a no-op: a handler step that leaves
\* current_window_size as it is neither resizes the window nor frees or
\* regenerates the shape mask.  (Stated for the runs in which the driver
\* granted all 4 buffers.)
C4_SameSizeResizeIsNoOp ==
    [][(pc = "poll" /\ pc' = "poll" /\ req_count = ReqCount
          /\ current_window_size' = current_window_size)
       => /\ "SDL_SetWindowSize" \notin Range(calls')
          /\ "SDL_FreeSurface" \notin Range(calls')
          /\ "create_circular_shape" \notin Range(calls')]_vars

\* The stabilized-resize check has just committed a resize: the size read
\* back was square and equal to the candidate.
TickCommitted == pc = "render" /\ w # 0 /\ w = h /\ w = pending_size

\* C2: when the stabilized-resize check applies a resize after a burst of
\* window-manager resize events and the window manager honours it, the size
\* applied is the candidate of the last reported event of the burst (here:
\* whenever that candidate is a legal size), not an earlier one.
C2_AppliesLastReported ==
    (TickCommitted /\ last_candidate >= MIN_WINDOW_SIZE)
        => current_window_size = last_candidate

RECURSIVE SumSeq(_)
SumSeq(seq) == IF seq = << >> THEN 0 ELSE Head(seq) + SumSeq(Tail(seq))

RECURSIVE FoldSteps(_, _)
FoldSteps(size, seq) ==
    IF seq = << >> THEN size
    ELSE FoldSteps((IF size + Head(seq) * 10 < 50
                    THEN 50 ELSE size + Head(seq) * 10), Tail(seq))

\* C3 as stated: after any sequence of keyboard and wheel steps
\* current_window_size is clamp(initial + sum(deltas) * STEP, 50, infinity).
C3_SumThenClamp ==
    current_window_size =
        (IF base_size + SumSeq(deltas) * 10 < 50
         THEN 50 ELSE base_size + SumSeq(deltas) * 10)

\* C3 as amended: after any sequence of keyboard and wheel steps
\* current_window_size is the result of applying
\* size := clamp(size + delta * STEP, 50, infinity) step by step to the
\* initial size; only the sign of a step counts, not whether the keyboard or
\* the wheel made it.
C3_StepwiseClamp == current_window_size = FoldSteps(base_size, deltas)

\* C3 witness: keyboard or wheel steps ran into the minimum and went up
\* again, so that clamping each step and clamping the sum differ.
C3_ClampedThenRaised ==
    /\ Len(deltas) >= 3
    /\ current_window_size = FoldSteps(base_size, deltas)
    /\ current_window_size > 50
    /\ base_size + SumSeq(deltas) * 10 <= 50

\* C8: when the stabilized-resize check applies the pending resize and the
\* size read back is not square or is not the candidate, the sizes and the
\* shape mask stay as they are, no mask is freed, generated or applied,
\* pending_resize is cleared and the loop goes on to render; and with no
\* resize pending the check resizes nothing.
C8_RejectedResizeChangesNothing ==
    [][/\ (pc = "tick" /\ pending_resize # 0
             /\ since_resize >= RESIZE_STABILIZE_MS
             /\ ~(w' = h' /\ w' = pending_size))
          => /\ current_window_size' = current_window_size
             /\ window_size' = window_size
             /\ shape_surface' = shape_surface
             /\ window_shape' = window_shape
             /\ "SDL_FreeSurface" \notin Range(calls')
             /\ "create_circular_shape" \notin Range(calls')
             /\ "SDL_SetWindowShape" \notin Range(calls')
             /\ pending_resize' = 0
             /\ running' = running
             /\ exit_code' = exit_code
             /\ pc' = "render"
       /\ (pc = "tick" /\ pending_resize = 0)
          => "SDL_SetWindowSize" \notin Range(calls')]_vars

\* C8 witness: a pending resize was applied and rejected, the loop runs on.
C8_RejectedObserved ==
    /\ pc = "render"
    /\ w # 0
    /\ ~(w = h /\ w = pending_size)
    /\ pending_resize = 0
    /\ pending_size # current_window_size
    /\ running = 1

\* C9: the application reads a slot only while it owns it: the read follows
\* a successful dequeue that returned the slot (itself following a wait
\* that reported readiness), the slot is mapped and dequeued during the
\* read and still dequeued when the requeue is issued, and an iteration in
\* which the wait timed out or failed or the dequeue failed goes back to the
\* loop test without a read.
C9_ReadOnlyWhileDequeued ==
    /\ pc = "dqbuf" => calls = <<"select">>
    /\ pc = "consume" =>
          /\ calls = <<"VIDIOC_DQBUF">>
          /\ buf_index \in dequeued
          /\ buf_index \notin queued
          /\ buf_index \in mapped
    /\ pc = "qbuf" =>
          /\ calls = <<"SDL_UpdateTexture">>
          /\ buf_index \in dequeued
          /\ buf_index \notin queued
    /\ "SDL_UpdateTexture" \in Range(calls) => pc = "qbuf"
    /\ calls \in {<<"select", "perror">>, <<"select", "fprintf">>,
                  <<"VIDIOC_DQBUF", "perror">>} => pc = "loop_test"

\* C9 witness: a slot has been read and is about to be requeued while
\* another slot, whose requeue failed earlier, is still held.
C9_ReadBeforeRequeue ==
    /\ pc = "qbuf"
    /\ calls = <<"SDL_UpdateTexture">>
    /\ buf_index \in dequeued
    /\ Cardinality(dequeued) = 2

\* C10: a wait that times out or fails, a failed dequeue and a failed
\* requeue take the loop back to its test with running, the exit code, the
\* sizes, the pending resize and the shape mask as they were; from the test
\* a running loop goes on to poll events.
C10_TransientErrorsNotFatal ==
    [][/\ (\/ pc = "select" /\ pc' # "dqbuf"
           \/ pc = "dqbuf" /\ pc' # "consume"
           \/ pc = "qbuf" /\ buf_index \notin queued')
          => /\ pc' = "loop_test"
             /\ running' = running
             /\ exit_code' = -1
             /\ current_window_size' = current_window_size
             /\ window_size' = window_size
             /\ pending_resize' = pending_resize
             /\ pending_size' = pending_size
             /\ shape_surface' = shape_surface
             /\ window_shape' = window_shape
       /\ (pc = "loop_test" /\ running # 0) => pc' = "poll"]_vars

\* C10 witness: a requeue has just failed while a resize is pending, and the
\* loop is still running.
C10_RequeueFailedLoopRuns ==
    /\ pc = "loop_test"
    /\ calls = <<"VIDIOC_QBUF", "perror">>
    /\ running = 1
    /\ pending_resize = 1
    /\ exit_code = -1

\* The number of times the call x is in the list cs.
Count(cs, x) == Cardinality({k \in 1 .. Len(cs) : cs[k] = x})

\* Every call a of the list cs comes before every call b of it.
Before(a, b, cs) ==
    \A k, l \in 1 .. Len(cs) : (cs[k] = a /\ cs[l] = b) => k < l

\* The positions after VIDIOC_STREAMOFF.
StoppedPcs == {"munmap", "close", "exited"}

\* C11: streaming is turned on only by VIDIOC_STREAMON; a step turns it off
\* with exactly one VIDIOC_STREAMOFF, issued before any munmap, free or
\* close of that step, with every slot still mapped and the device still
\* open before it, and takes main() to the teardown, from where it never
\* comes back; VIDIOC_STREAMOFF is issued only while streaming is on (so
\* never a second time); no VIDIOC_DQBUF and no requeue is issued once
\* streaming is off; nothing is unmapped, freed or closed while streaming
\* stays on; and main() has never exited or closed the device with
\* streaming on.
C11_StreamStopOrdering ==
    [][/\ (streaming /\ ~streaming') =>
             /\ Count(calls', "VIDIOC_STREAMOFF") = 1
             /\ Before("VIDIOC_STREAMOFF", "munmap", calls')
             /\ Before("VIDIOC_STREAMOFF", "free", calls')
             /\ Before("VIDIOC_STREAMOFF", "close", calls')
             /\ "VIDIOC_DQBUF" \notin Range(calls')
             /\ "VIDIOC_QBUF" \notin Range(calls')
             /\ mapped' = mapped
             /\ fd_open
             /\ buffers_alloc
             /\ pc' \in StoppedPcs
       /\ "VIDIOC_STREAMOFF" \in Range(calls') => (streaming /\ ~streaming')
       /\ (~streaming /\ streaming') =>
             (pc = "streamon" /\ calls' = <<"VIDIOC_STREAMON">>)
       /\ pc \in StoppedPcs => pc' \in StoppedPcs
       /\ (pc \in StoppedPcs \/ ~streaming') =>
             /\ "VIDIOC_DQBUF" \notin Range(calls')
             /\ ("VIDIOC_QBUF" \in Range(calls') => pc = "queue")
       /\ (streaming /\ streaming') =>
             /\ "munmap" \notin Range(calls')
             /\ "free" \notin Range(calls')
             /\ "close" \notin Range(calls')
             /\ mapped' = mapped
       /\ (pc' = "exited" \/ ~fd_open' \/ ~buffers_alloc') => ~streaming'
    ]_vars

\* C11 witness: after frame cycles the loop was left and VIDIOC_STREAMOFF has
\* just been issued: streaming is off, every slot is still mapped, the buffers
\* array is live and the device is open.
C11_StoppedBeforeTeardown ==
    /\ pc = "munmap"
    /\ calls = <<"VIDIOC_STREAMOFF">>
    /\ ~streaming
    /\ req_count = ReqCount
    /\ mapped = 0 .. (ReqCount - 1)
    /\ buffers_alloc
    /\ fd_open
    /\ running = 0

\* The positions at which current_window_size exists: the loop and the
\* cleanup after it.
SizedPcs == LoopPcs \cup {"cleanup", "streamoff", "munmap", "close"}

\* C12: while the program runs its loop (and through the cleanup after it),
\* whatever keyboard steps, wheel steps, window-manager resize events,
\* stabilized-resize checks and capture cycles came before,
\* current_window_size is at least MIN_WINDOW_SIZE; so are window_size and
\* the candidate of a pending resize.
C12_MinimumSize ==
    pc \in SizedPcs =>
        /\ current_window_size >= MIN_WINDOW_SIZE
        /\ window_size >= MIN_WINDOW_SIZE
        /\ pending_resize # 0 => pending_size >= MIN_WINDOW_SIZE

\* C12 witness: a keyboard or wheel step has just brought the window to the
\* minimum size while a window-manager resize is pending.
C12_AtMinimumWithPending ==
    /\ pc = "poll"
    /\ "SDL_SetWindowSize" \in Range(calls)
    /\ current_window_size = MIN_WINDOW_SIZE
    /\ pending_resize = 1
    /\ pending_size > MIN_WINDOW_SIZE

\* What the drag handlers have to leave alone: the sizes, the pending
\* resize and its time, the shape mask, and everything of the capture.
nodragvars == <<pc, exit_code, i, devvars, sdlvars, geomvars, running,
                buf_index, argvars>>

\* C13: a left button press sets dragging and stores the pointer and the
\* window position as anchors; a left button release clears dragging; a
\* motion while dragging moves the window to its position at the press plus
\* the pointer minus the pointer at the press, and changes neither dragging
\* nor the anchors; a motion while not dragging and the events of another
\* button change nothing; and none of these events changes the sizes, the
\* pending resize, its time or the shape mask.
C13_DragIsOrthogonal ==
    [][LET e == last_event'
       IN  /\ e.type \in {"SDL_MOUSEBUTTONDOWN", "SDL_MOUSEBUTTONUP",
                           "SDL_MOUSEMOTION"}
                => UNCHANGED nodragvars
           /\ (e.type = "SDL_MOUSEBUTTONDOWN" /\ e.button = "LEFT") =>
                 /\ dragging' = 1
                 /\ drag_start_x' = e.x /\ drag_start_y' = e.y
                 /\ win_start_x' = win_x /\ win_start_y' = win_y
                 /\ UNCHANGED <<win_x, win_y>>
           /\ (e.type = "SDL_MOUSEBUTTONUP" /\ e.button = "LEFT") =>
                 /\ dragging' = 0
                 /\ UNCHANGED <<drag_start_x, drag_start_y, win_start_x,
                                win_start_y, win_x, win_y>>
           /\ (e.type = "SDL_MOUSEMOTION" /\ dragging # 0) =>
                 /\ win_x' = win_start_x + e.x - drag_start_x
                 /\ win_y' = win_start_y + e.y - drag_start_y
                 /\ UNCHANGED <<dragging, drag_start_x, drag_start_y,
                                win_start_x, win_start_y>>
           /\ (e.type = "SDL_MOUSEMOTION" /\ dragging = 0) =>
                 UNCHANGED dragvars
           /\ (e.type \in {"SDL_MOUSEBUTTONDOWN", "SDL_MOUSEBUTTONUP"}
                  /\ e.button # "LEFT") => UNCHANGED dragvars
    ]_vars

\* C13 witness: in a second drag, begun away from where the window was
\* created, a motion has just moved the window while a window-manager
\* resize is pending.
C13_DraggedWhilePending ==
    /\ last_event.type = "SDL_MOUSEMOTION"
    /\ dragging = 1
    /\ win_start_x # 0
    /\ win_x # win_start_x
    /\ win_y # win_start_y
    /\ pending_resize = 1
    /\ window_shape = current_window_size

\* The command line args holds a -s followed by an argument whose value is
\* below MIN_SIZE.
HasUndersized(args) ==
    \E k \in 1 .. (Len(args) - 1) :
        args[k] = TokS /\ Atoi(args[k + 1]) < MIN_SIZE

\* C14 as stated: for every command line with an undersized -s, wherever
\* the -s stands, main() stays in argument parsing until it exits, exits
\* with code 1 after the size-error message, and calls neither SDL_Init nor
\* open.
C14_UndersizedGivesSizeError ==
    [][HasUndersized(argv) =>
          /\ pc' \in {"parse", "exited"}
          /\ "SDL_Init" \notin Range(calls')
          /\ "open" \notin Range(calls')
          /\ pc' = "exited" => (exit_code' = 1 /\ calls' = SizeError)
    ]_vars

\* C14 as amended: for every command line with an undersized -s, wherever
\* the -s stands, main() stays in argument parsing until it exits, exits
\* with code 1, and calls neither SDL_Init nor open; the message is the
\* size error when the command line has at most 4 arguments (argc <= 5),
\* and the usage message when it has more.
C14_UndersizedIsRejected ==
    [][HasUndersized(argv) =>
          /\ pc' \in {"parse", "exited"}
          /\ "SDL_Init" \notin Range(calls')
          /\ "open" \notin Range(calls')
          /\ pc' = "exited" =>
                /\ exit_code' = 1
                /\ calls' = IF Argc <= MaxArgc THEN SizeError ELSE UsageError
    ]_vars

\* C14 witness: -s 50 standing after the device path and -t has been
\* rejected with the size error.
C14_TrailingUndersizedRejected ==
    /\ pc = "exited"
    /\ exit_code = 1
    /\ calls = SizeError
    /\ argv = <<DevPath, TokT, TokS, <<"5", "0">>>>
    /\ video_device = DevPath
    /\ always_on_top = 1
    /\ ~sdl_up
    /\ ~fd_open

\* The positions of one loop iteration after the loop test, in order.
LoopPath == <<"poll", "tick", "render", "select", "dqbuf", "consume", "qbuf">>

PathPos(p) == CHOOSE k \in 1 .. Len(LoopPath) : LoopPath[k] = p

CleanupPcs == {"cleanup", "streamoff", "munmap", "close"}

\* The process has ended: main() has returned, or a signal has ended it.
EndedPcs == {"exited", "killed"}

\* C15: running is cleared only by a step of the event loop that does
\* nothing else (the quit and Escape handlers), and once cleared it stays
\* so; it is read only by the loop test, which goes on to poll events when
\* it is set and to the cleanup when it is clear, and nothing else starts
\* the cleanup; with running cleared the iteration only moves forward
\* (further events, the stabilized check, the render, at most one select
\* and capture) to the loop test, and in the end main() has exited with
\* code 0; the exit code is 0 exactly when main() returns from the end of
\* the cleanup, and 1 on every other way the process ends.
C15_CooperativeExit ==
    /\ [][/\ (running # 0 /\ running' = 0) =>
                /\ pc = "poll" /\ pc' = "poll"
                /\ calls' = << >>
                /\ UNCHANGED <<exit_code, i, devvars, sdlvars, geomvars,
                               buf_index>>
          /\ (running = 0 /\ pc \in LoopPcs \cup CleanupPcs) => running' = 0
          /\ pc = "loop_test" =>
                pc' = IF running # 0 THEN "poll" ELSE "cleanup"
          /\ (pc' = "cleanup" /\ pc # "cleanup") =>
                (pc = "loop_test" /\ running = 0)
          /\ (running = 0 /\ pc \in Range(LoopPath)) =>
                \/ pc' = "loop_test"
                \/ pc' = "poll" /\ pc = "poll"
                \/ pc' \in Range(LoopPath) /\ PathPos(pc') > PathPos(pc)
          /\ pc \in CleanupPcs => pc' \in CleanupPcs \cup {"exited"}
          /\ (pc' \in EndedPcs /\ pc \notin EndedPcs) =>
                exit_code' = IF pc = "close" THEN 0 ELSE 1
          /\ pc' \notin EndedPcs => exit_code' = -1
          /\ exit_code' = 0 => running' = 0
         ]_vars
    /\ (pc \in LoopPcs /\ running = 0) ~> (pc = "exited" /\ exit_code = 0)

\* C16: a slot whose requeue failed is dequeued and not queued ever after,
\* and its requeue is not tried again (no slot fails twice); from the loop
\* test up to the next dequeue the slots that are not queued are exactly
\* those whose requeue failed, as many as there were failures, and during
\* the consume and requeue the slot in use is the only other one; once the
\* requeues of all 4 slots have failed the driver holds no slot, no slot is
\* dequeued or consumed, and the loop is still running.
C16_RequeueFailureShrinksPool ==
    /\ Range(failed) \subseteq dequeued
    /\ Range(failed) \cap queued = {}
    /\ Cardinality(Range(failed)) = Len(failed)
    /\ pc \in {"loop_test", "poll", "tick", "render", "select", "dqbuf"} =>
          /\ Slots \ queued = Range(failed)
          /\ Cardinality(Slots \ queued) = Len(failed)
    /\ pc \in {"consume", "qbuf"} =>
          /\ buf_index \notin Range(failed)
          /\ Slots \ queued = Range(failed) \cup {buf_index}
    /\ Len(failed) = ReqCount =>
          /\ queued = {}
          /\ pc \in LoopPcs \ {"consume", "qbuf"}
          /\ running = 1
          /\ exit_code = -1

\* C16 witness: the requeues of all 4 slots have failed, a dequeue has just
\* failed for want of a queued slot, and the loop goes on.
C16_PoolExhaustedLoopRuns ==
    /\ Len(failed) = ReqCount
    /\ pc = "loop_test"
    /\ calls = <<"VIDIOC_DQBUF", "perror">>
    /\ running = 1

\* C17: in every resize step that generates a new shape mask (a keyboard or
\* wheel handler, a committing stabilized check) the old mask is freed only
\* after the new one has been generated and applied to the window, and not
\* at all when none was applied; and while the loop runs the window is
\* never left with its mask surface freed and none in its place.  (Stated
\* for the runs in which the driver granted all 4 buffers.)
C17_OldMaskFreedAfterApply ==
    [][(pc \in {"poll", "tick"} /\ req_count = ReqCount) =>
          /\ "create_circular_shape" \in Range(calls') =>
                /\ Before("create_circular_shape", "SDL_FreeSurface", calls')
                /\ Before("SDL_SetWindowShape", "SDL_FreeSurface", calls')
                /\ "SDL_FreeSurface" \in Range(calls')
                      => "SDL_SetWindowShape" \in Range(calls')
          /\ shape_surface' # 0
    ]_vars

\* C18: the stabilized-resize check sets the window size (to commit or to
\* reject the pending resize) only when a resize is pending and, by the
\* clock the check reads, at least RESIZE_STABILIZE_MS have passed since
\* the last window-manager resize event that was recorded; with no resize
\* pending or with less time passed it goes on to render and changes
\* nothing; the time since the last recorded event starts again at 0 with
\* every event that changes the pending resize, is set back by nothing
\* else, and otherwise only grows.
C18_StabilizationGuard ==
    [][/\ (pc = "tick" /\ calls' # << >>) =>
             /\ pending_resize # 0
             /\ since_resize' >= RESIZE_STABILIZE_MS
       /\ (pc = "tick" /\ pending_resize' # pending_resize) =>
             /\ pending_resize # 0
             /\ since_resize' >= RESIZE_STABILIZE_MS
       /\ (pc = "tick"
             /\ (pending_resize = 0 \/ since_resize' < RESIZE_STABILIZE_MS)) =>
             /\ pc' = "render"
             /\ calls' = << >>
             /\ UNCHANGED <<exit_code, i, devvars, sdlvars, window_size,
                            current_window_size, pending_resize, pending_size,
                            w, h, running, buf_index>>
       /\ (pc = "poll" /\ (pending_resize' # pending_resize
                             \/ pending_size' # pending_size)) =>
             /\ since_resize' = 0
             /\ pending_resize' = 1
       /\ since_resize' < since_resize =>
             /\ pc = "poll"
             /\ since_resize' = 0
             /\ pending_resize' = 1
             /\ pending_size' >= MIN_WINDOW_SIZE
             /\ pending_size' # current_window_size
    ]_vars

\* C18 witness: a resize is pending, time has passed since its event but
\* less than RESIZE_STABILIZE_MS, and the check has just let it wait.
C18_PendingKeptWaiting ==
    /\ pc = "render"
    /\ calls = << >>
    /\ pending_resize = 1
    /\ since_resize > 0
    /\ since_resize < RESIZE_STABILIZE_MS
    /\ w = 0

\* C19: when no further qualifying window-manager resize event arrives, a
\* pending resize leads to no resize pending; pending_resize is cleared
\* only by the stabilized-resize check setting the window size, and every
\* such check on a pending resize with the time passed clears it, whether
\* the size read back is accepted or not.
C19_PendingIsResolved ==
    /\ (pending_resize = 1) ~> (pending_resize = 0)
    /\ [][/\ (pc = "tick" /\ pending_resize # 0
                 /\ since_resize >= RESIZE_STABILIZE_MS) =>
                 /\ pending_resize' = 0
                 /\ "SDL_GetWindowSize" \in Range(calls')
          /\ (pending_resize # 0 /\ pending_resize' = 0) =>
                 /\ pc = "tick"
                 /\ "SDL_SetWindowSize" \in Range(calls')
          ]_vars

\* C19 witness: a pending resize has just been resolved by the check, the
\* time having passed.
C19_ResolvedAfterWaiting ==
    /\ pc = "render"
    /\ "SDL_GetWindowSize" \in Range(calls)
    /\ pending_resize = 0
    /\ pending_size # 0
    /\ since_resize >= RESIZE_STABILIZE_MS

\* The pending resize and the time it was recorded at.
pendingvars == <<pending_resize, pending_size, since_resize>>

\* C20: the pending resize and its time are changed only by a
\* window-manager resize event whose candidate is at least MIN_WINDOW_SIZE
\* and differs from current_window_size, which overwrites them, and by the
\* stabilized check, which clears the flag only.  A window-manager event
\* failing that test and every keyboard or wheel resize leave them as they
\* are, and a check that commits makes pending_size the current size
\* whatever size a keyboard or wheel resize chose in between.  The time
\* since the recorded event is set back by nothing else: it only grows.
C20_PendingFrame ==
    [][/\ (pc = "poll" /\ pc' = "poll"
            /\ last_event'.type = "SDL_WINDOWEVENT") =>
              IF /\ last_event'.x >= MIN_WINDOW_SIZE
                 /\ last_event'.x # current_window_size
              THEN /\ pending_resize' = 1
                   /\ pending_size' = last_event'.x
                   /\ since_resize' = 0
              ELSE UNCHANGED pendingvars
       /\ (pc = "poll" /\ pc' = "poll"
            /\ last_event'.type \in {"SDL_KEYDOWN", "SDL_MOUSEWHEEL"}) =>
              /\ "SDL_SetWindowSize" \in Range(calls')
              /\ UNCHANGED pendingvars
       /\ (pc = "poll" /\ pc' # "poll") => UNCHANGED pendingvars
       /\ pc = "tick" =>
              /\ UNCHANGED pending_size
              /\ since_resize' >= since_resize
              /\ IF pending_resize # 0
                    /\ since_resize' >= RESIZE_STABILIZE_MS
                 THEN /\ pending_resize' = 0
                      /\ (w' # 0 /\ w' = h' /\ w' = pending_size) =>
                            /\ current_window_size' = pending_size
                            /\ window_size' = pending_size
                 ELSE UNCHANGED pending_resize
       /\ pc \notin {"poll", "tick"} =>
              /\ UNCHANGED <<pending_resize, pending_size>>
              /\ since_resize' >= since_resize
      ]_vars

\* C20 witness: the check has just committed a resize that was pending
\* while a key changed the size, the key press being the last event before
\* the check, and the size is the pending one.
C20_PendingReplacesKeyResize ==
    /\ pc = "render"
    /\ last_event.type = "SDL_KEYDOWN"
    /\ w # 0 /\ w = h /\ w = pending_size
    /\ pending_resize = 0
    /\ current_window_size = pending_size
    /\ shape_surface = pending_size

====
